---- MODULE Spec2Model ----
(***************************************************************************)
(* A model of qutipy/channels.py: representations of completely-positive   *)
(* maps (Kraus lists, Choi matrices), their application to operators, and  *)
(* the algebra of maps (composition, tensor product, tensor power).        *)
(*                                                                         *)
(* Numbers are exact Gaussian rationals <<re, im, den>> (den > 0, lowest   *)
(* terms), so that equalities between matrices are exact.  A matrix is a   *)
(* sequence of rows; a Kraus list is a sequence of matrices.               *)
(***************************************************************************)
EXTENDS Integers, Sequences, FiniteSets, TLC

VARIABLES inp, out

vars == <<inp, out>>

(***************************************************************************)
(* Bounds of the model.                                                    *)
(***************************************************************************)
\* Longest Kraus list drawn as an input.
MaxKraus == 2
\* Largest number of subsystems / channel uses / composed channels.
MaxN == 2

\* Dimensions of a single subsystem.
Dims == {1, 2}
\* Seeds of the operator and state pools.
Seeds == {0, 1}

(***************************************************************************)
(* TLC builds a function [x \in S |-> e] unevaluated; Force evaluates it.  *)
(***************************************************************************)
Force(x) == CHOOSE v \in {x} : v = v

(***************************************************************************)
(* Complex numbers with rational parts.                                    *)
(***************************************************************************)
Abs(x) == IF x < 0 THEN -x ELSE x

RECURSIVE GCD(_, _)
GCD(a, b) == IF b = 0 THEN a ELSE GCD(b, a % b)

ReduceBy(x, g) == <<x[1] \div g, x[2] \div g, x[3] \div g>>

\* The number (re + i*im)/den in lowest terms with a positive denominator.
Reduce(x) ==
    IF x[3] = 1 THEN x
    ELSE ReduceBy(x, GCD(GCD(Abs(x[1]), Abs(x[2])), Abs(x[3])) * (IF x[3] < 0 THEN -1 ELSE 1))

Cx(re, im, den) == Reduce(<<re, im, den>>)

CZero == <<0, 0, 1>>
COne == <<1, 0, 1>>

CAdd(x, y) ==
    IF x = CZero THEN y
    ELSE IF y = CZero THEN x
    ELSE IF x[3] = y[3] THEN Reduce(<<x[1] + y[1], x[2] + y[2], x[3]>>)
    ELSE Reduce(<<x[1] * y[3] + y[1] * x[3], x[2] * y[3] + y[2] * x[3], x[3] * y[3]>>)

CMul(x, y) ==
    IF x = CZero \/ y = CZero THEN CZero
    ELSE IF x = COne THEN y
    ELSE IF y = COne THEN x
    ELSE Reduce(<<x[1] * y[1] - x[2] * y[2], x[1] * y[2] + x[2] * y[1], x[3] * y[3]>>)

\* np.conjugate on one entry.
CConj(x) == <<x[1], -x[2], x[3]>>

RECURSIVE CSumTo(_, _)
CSumTo(f, n) == IF n = 0 THEN CZero ELSE CAdd(CSumTo(f, n - 1), f[n])

\* The sum of the sequence f of numbers.
CSum(f) == CSumTo(f, Len(f))

(***************************************************************************)
(* numpy / general_functions primitives used by channels.py.               *)
(***************************************************************************)
Rows(M) == Len(M)
Cols(M) == Len(M[1])

\* A @ B
MatMul(A, B) ==
    Force([i \in 1..Rows(A) |->
            [j \in 1..Cols(B) |->
                CSum(Force([k \in 1..Cols(A) |-> CMul(A[i][k], B[k][j])]))]])

MatAdd(A, B) ==
    Force([i \in 1..Rows(A) |-> [j \in 1..Cols(A) |-> CAdd(A[i][j], B[i][j])]])

\* x * A for a scalar x
MatScale(x, A) ==
    Force([i \in 1..Rows(A) |-> [j \in 1..Cols(A) |-> CMul(x, A[i][j])]])

\* A.transpose()
transpose(A) == Force([j \in 1..Cols(A) |-> [i \in 1..Rows(A) |-> A[i][j]]])

\* general_functions.dag: the conjugate transpose.
dag(A) == Force([j \in 1..Cols(A) |-> [i \in 1..Rows(A) |-> CConj(A[i][j])]])

\* general_functions.eye(d)
eye(d) == Force([i \in 1..d |-> [j \in 1..d |-> IF i = j THEN COne ELSE CZero]])

\* general_functions.ket(d, i): the column vector |i> (i counted from 0).
ket(d, i) == Force([r \in 1..d |-> <<IF r = i + 1 THEN COne ELSE CZero>>])

\* The scalar 1 that tensor products are accumulated from: np.kron(1, M) = M.
ScalarOne == <<<<COne>>>>

\* The 0-d scalar 0.0 that np.sum returns for an empty list: not a matrix.
ScalarZero == <<>>

\* general_functions.tensor(A, B) = np.kron(A, B)
tensor(A, B) ==
    Force([i \in 1..(Rows(A) * Rows(B)) |->
            [j \in 1..(Cols(A) * Cols(B)) |->
                CMul(A[((i - 1) \div Rows(B)) + 1][((j - 1) \div Cols(B)) + 1],
                     B[((i - 1) % Rows(B)) + 1][((j - 1) % Cols(B)) + 1])]])

RECURSIVE np_sum_from(_, _)
np_sum_from(L, n) ==
    IF n = 1 THEN L[1] ELSE MatAdd(np_sum_from(L, n - 1), L[n])

\* np.sum(L, 0) for a list L of equally shaped matrices.
np_sum(L) == IF Len(L) = 0 THEN ScalarZero ELSE np_sum_from(L, Len(L))

\* Every h in range(n) put in front of every tuple of rest, in order.
product_step(n, rest) ==
    Force([k \in 1..(n * Len(rest)) |->
            <<(k - 1) \div Len(rest)>> \o rest[((k - 1) % Len(rest)) + 1]])

RECURSIVE product(_)
\* list(itertools.product(*[range(l) for l in lengths])): all index tuples
\* (counted from 0), the last position varying fastest.
product(lengths) ==
    IF Len(lengths) = 0 THEN << <<>> >>
    ELSE product_step(Head(lengths), product(Tail(lengths)))

\* An optional argument: None, or a value.
None == <<>>
Some(x) == <<x>>

\* A returned value / a raised exception.
Value(v) == [kind |-> "value", val |-> v]
Raised(e) == [kind |-> "error", err |-> e]
Pending == [kind |-> "pending"]

(***************************************************************************)
(* apply_channel                                                           *)
(***************************************************************************)
\* subsystem_step without "l += 1": every position in sys takes the Kraus
\* operator of the first index of the tuple.
subsystem_step_no_increment(K, index, in_sys, d, Xl) ==
    IF in_sys
    THEN <<tensor(Xl[1], K[index[Xl[2] + 1] + 1]), Xl[2]>>
    ELSE <<tensor(Xl[1], eye(d)), Xl[2]>>

\* One pass of the loop body of apply_channel (lines 279-283) for subsystem
\* i (counted from 1), from the pair <<X, l>> reached so far.
subsystem_step(K, index, in_sys, d, Xl) ==
    IF in_sys
    THEN <<tensor(Xl[1], K[index[Xl[2] + 1] + 1]), Xl[2] + 1>>
    ELSE <<tensor(Xl[1], eye(d)), Xl[2]>>

RECURSIVE subsystem_operator(_, _, _, _, _)
\* The inner loop of apply_channel (lines 276-283) run for i = 0..upto-1:
\* the tensor product X over the first upto subsystems, starting from 1,
\* and the number l of Kraus indices consumed, as the pair <<X, l>>.
subsystem_operator(K, index, sys, dim, upto) ==
    IF upto = 0 THEN <<ScalarOne, 0>>
    ELSE subsystem_step(K, index, \E p \in 1..Len(sys) : sys[p] = upto, dim[upto],
                        subsystem_operator(K, index, sys, dim, upto - 1))

\* The operators X for which apply_channel sums X rho X^dagger: K itself
\* (sys unset, line 263) or the list A built from every tuple of Kraus
\* indices (lines 265-284).
indexed_terms(K, sys, dim, indices) ==
    Force([t \in 1..Len(indices) |->
            subsystem_operator(K, indices[t], sys, dim, Len(dim))[1]])

channel_terms(K, sys, dim) ==
    IF sys = None THEN K
    ELSE indexed_terms(K, sys[1], dim[1], product([p \in 1..Len(sys[1]) |-> Len(K)]))

\* np.sum([A[i] @ rho @ dag(A[i]) for i in range(len(A))], 0), lines 263 and
\* 286.  numpy raises ValueError when a matrix is multiplied with a 0-d
\* scalar; an empty list sums to the scalar 0.0.
kraus_sum(A, rho) ==
    IF Len(A) > 0 /\ rho = ScalarZero THEN Raised("ValueError")
    ELSE Value(np_sum(Force([t \in 1..Len(A) |-> MatMul(MatMul(A[t], rho), dag(A[t]))])))

\* apply_channel(K, rho, sys, dim, adjoint) for a numeric rho (the
\* cvx.Variable branch converts to and from numpy around the same call).
\* sys and dim are optional (None or Some(list)).  The function has no raise
\* of its own: an empty K sums an empty list, which is the scalar 0.0; the
\* only exception is numpy's, when a matrix is multiplied with a 0-d scalar.
apply_channel(K, rho, sys, dim, adjoint) ==
    kraus_sum(channel_terms(IF adjoint THEN [i \in 1..Len(K) |-> dag(K[i])] ELSE K,
                            sys, dim), rho)

(***************************************************************************)
(* Map algebra                                                             *)
(***************************************************************************)
RECURSIVE compose_product_right(_, _, _, _)
\* compose_product multiplying on the right: tmp = tmp @ C[i][comb[i]].
compose_product_right(C, comb, d, upto) ==
    IF upto = 0 THEN eye(d)
    ELSE MatMul(compose_product_right(C, comb, d, upto - 1), C[upto][comb[upto] + 1])

RECURSIVE compose_product_first_twice(_, _, _, _)
\* compose_product started from the first operator instead of eye(d), the
\* loop still running over every channel: K1's operator is applied twice.
compose_product_first_twice(C, comb, d, upto) ==
    IF upto = 0 THEN C[1][comb[1] + 1]
    ELSE MatMul(C[upto][comb[upto] + 1], compose_product_first_twice(C, comb, d, upto - 1))

RECURSIVE compose_product(_, _, _, _)
\* The inner loop of compose_channels (lines 310-312) run for the first upto
\* channels: tmp = C[i][comb[i]] @ tmp, starting from eye(d).
compose_product(C, comb, d, upto) ==
    IF upto = 0 THEN eye(d)
    ELSE MatMul(C[upto][comb[upto] + 1], compose_product(C, comb, d, upto - 1))

\* The loop over combs of compose_channels (lines 308-313).
compose_combs(C, d, combs) ==
    [t \in 1..Len(combs) |-> compose_product(C, combs[t], d, Len(C))]

\* compose_channels(C).  d = C[0][0].shape[0] raises IndexError when C or
\* its first Kraus list is empty.
compose_channels(C) ==
    IF Len(C) = 0 \/ Len(C[1]) = 0 THEN Raised("IndexError")
    ELSE Value(compose_combs(C, Rows(C[1][1]), product([i \in 1..Len(C) |-> Len(C[i])])))

RECURSIVE tensor_product(_, _, _)
\* The inner loop of tensor_channels (lines 334-336) run for the first upto
\* channels: tmp = tensor(tmp, C[i][comb[i]]), starting from 1.
tensor_product(C, comb, upto) ==
    IF upto = 0 THEN ScalarOne
    ELSE tensor(tensor_product(C, comb, upto - 1), C[upto][comb[upto] + 1])

\* The loop over combs of tensor_channels (lines 333-337).
tensor_combs(C, combs) ==
    [t \in 1..Len(combs) |-> tensor_product(C, combs[t], Len(C))]

\* tensor_channels(C)
tensor_channels(C) == tensor_combs(C, product([i \in 1..Len(C) |-> Len(C[i])]))

RECURSIVE power_product_one_short(_, _, _)
\* power_product with the loop run over range(1, n): one factor too few.
power_product_one_short(K, comb, upto) ==
    IF upto <= 1 THEN ScalarOne
    ELSE tensor(power_product_one_short(K, comb, upto - 1), K[comb[upto] + 1])

RECURSIVE power_product(_, _, _)
\* The inner loop of n_channel_uses (lines 358-360) run for i = 0..upto-1.
power_product(K, comb, upto) ==
    IF upto = 0 THEN ScalarOne
    ELSE tensor(power_product(K, comb, upto - 1), K[comb[upto] + 1])

\* The loop over combs of n_channel_uses (lines 356-361).
power_combs(K, n, combs) ==
    [t \in 1..Len(combs) |-> power_product(K, combs[t], n)]

\* n_channel_uses(K, n): r = len(K), combs = product(*[range(r)] * n).
n_channel_uses(K, n) == power_combs(K, n, product([i \in 1..n |-> Len(K)]))

(***************************************************************************)
(* Inputs: pools of operators, Kraus lists, dimension lists.               *)
(***************************************************************************)
\* A (dB x dA) operator with complex entries, one per seed.
KOp(dB, dA, s) ==
    [b \in 1..dB |-> [a \in 1..dA |->
        Cx(((s + 2 * b + a) % 3) - 1, (s * b + a) % 2, 1)]]

\* A (D x D) operator (not necessarily a state), one per seed.
RhoOp(D, s) ==
    [i \in 1..D |-> [j \in 1..D |->
        Cx(((i + 2 * j + s) % 3) - 1, (i * j + s) % 2, 1)]]

SeqsUpTo(S, n) == UNION {[1..m -> S] : m \in 0..n}

\* Kraus lists of (dB x dA) operators: m consecutive operators of the pool,
\* the empty list included.
KrausLists(dB, dA) ==
    {[i \in 1..m |-> KOp(dB, dA, s + i - 1)] : m \in 0..MaxKraus, s \in Seeds}

RECURSIVE Prod(_, _)
\* f[1] * ... * f[n]
Prod(f, n) == IF n = 0 THEN 1 ELSE Prod(f, n - 1) * f[n]

RECURSIVE Pow(_, _)
Pow(b, e) == IF e = 0 THEN 1 ELSE b * Pow(b, e - 1)

DimLists == UNION {[1..n -> Dims] : n \in 1..MaxN}

\* The increasing lists of distinct positions in 1..n.
SysLists(n) ==
    {q \in SeqsUpTo(1..n, n) : \A p \in 1..Len(q) : p > 1 => q[p - 1] < q[p]}

InSys(sys, i) == \E p \in 1..Len(sys) : sys[p] = i

(***************************************************************************)
(* SpecApply: apply_channel on subsystems, against the tensor-product map  *)
(* applied to the whole operator.                                          *)
(***************************************************************************)
\* The list that has K at each position in sys and [eye(dim[i])] elsewhere.
identity_extension(K, sys, dim) ==
    [i \in 1..Len(dim) |-> IF InSys(sys, i) THEN K ELSE <<eye(dim[i])>>]

\* The inputs of one call with dimension list dim and positions sys: the
\* Kraus operators have as many columns as each subsystem they act on.
ApplyInputsOn(dim, sys) ==
    UNION {{[K |-> K, rho |-> RhoOp(Prod(dim, Len(dim)), s), sys |-> sys, dim |-> dim,
             dA |-> dA, dB |-> dB] : K \in KrausLists(dB, dA), s \in Seeds}
           : dA \in {a \in Dims : \A p \in 1..Len(sys) : dim[sys[p]] = a}, dB \in Dims}

ApplyInputs ==
    UNION {UNION {ApplyInputsOn(dim, sys) : sys \in SysLists(Len(dim))} : dim \in DimLists}

InitApply ==
    /\ inp \in ApplyInputs
    /\ out = [onsys |-> Pending, tensored |-> Pending, full |-> Pending]

\* apply_channel(K, rho, sys, dim)
ApplyOnSubsystems ==
    /\ out.onsys = Pending
    /\ out' = [out EXCEPT !.onsys =
                  apply_channel(inp.K, inp.rho, Some(inp.sys), Some(inp.dim), FALSE)]
    /\ UNCHANGED inp

\* apply_channel(tensor_channels(T), rho)
ApplyTensored ==
    /\ out.tensored = Pending
    /\ out' = [out EXCEPT !.tensored =
                  apply_channel(tensor_channels(identity_extension(inp.K, inp.sys, inp.dim)),
                                inp.rho, None, None, FALSE)]
    /\ UNCHANGED inp

\* apply_channel(K, rho, adjoint=adjoint) on the whole operator, when the
\* shapes of K and rho agree.
ApplyFull ==
    /\ out.full = Pending
    /\ \E adjoint \in BOOLEAN :
         /\ \A i \in 1..Len(inp.K) :
               (IF adjoint THEN Rows(inp.K[i]) ELSE Cols(inp.K[i])) = Rows(inp.rho)
         /\ out' = [out EXCEPT !.full = apply_channel(inp.K, inp.rho, None, None, adjoint)]
    /\ UNCHANGED inp

NextApply == ApplyOnSubsystems \/ ApplyTensored \/ ApplyFull

SpecApply == InitApply /\ [][NextApply]_vars

\* C1: applying K on the subsystems sys of rho gives the same result as
\* applying, to the whole of rho, the tensor product of the channels that
\* are K at the positions in sys and the identity channel elsewhere.
C1_PartialEqualsTensored ==
    (out.onsys # Pending /\ out.tensored # Pending) => out.onsys = out.tensored

\* Both calls have returned a matrix for a two-operator K acting on the
\* second of two qubits.
C1_Witness ==
    /\ inp.sys = <<2>> /\ inp.dim = <<2, 2>> /\ Len(inp.K) = 2
    /\ out.onsys # Pending /\ out.tensored # Pending
    /\ out.onsys.kind = "value" /\ out.onsys.val # ScalarZero

\* C6: apply_channel called with an empty Kraus list reports an invalid-map
\* error instead of returning a value, with sys unset and with sys and dim
\* given.
C6_EmptyKrausIsInvalidMap ==
    Len(inp.K) = 0 =>
        /\ out.full # Pending => out.full = Raised("InvalidMapError")
        /\ out.onsys # Pending => out.onsys = Raised("InvalidMapError")

(***************************************************************************)
(* SpecCompose: compose_channels on a list of channels of one dimension,   *)
(* against the channels applied one after the other.                       *)
(***************************************************************************)
ComposeInputs ==
    UNION {UNION {{[C |-> C, rho |-> RhoOp(d, s), d |-> d] : s \in Seeds}
                  : C \in UNION {[1..n -> KrausLists(d, d)] : n \in 1..MaxN}}
           : d \in Dims}

InitCompose ==
    /\ inp \in ComposeInputs
    /\ out = [composed |-> Pending, applied |-> Pending,
              step |-> 0, seq |-> Value(inp.rho)]

\* compose_channels(C)
Compose ==
    /\ out.composed = Pending
    /\ out' = [out EXCEPT !.composed = compose_channels(inp.C)]
    /\ UNCHANGED inp

\* apply_channel(compose_channels(C), rho), once the composition returned.
ApplyComposed ==
    /\ out.composed.kind = "value"
    /\ out.applied = Pending
    /\ out' = [out EXCEPT !.applied =
                  apply_channel(out.composed.val, inp.rho, None, None, FALSE)]
    /\ UNCHANGED inp

\* The next channel of C applied to the result of the previous ones:
\* apply_channel(C[step], ...), K1 first.
ApplyNextInSequence ==
    /\ out.step < Len(inp.C)
    /\ out.seq.kind = "value"
    /\ out' = [out EXCEPT !.step = out.step + 1,
                          !.seq = apply_channel(inp.C[out.step + 1], out.seq.val,
                                                None, None, FALSE)]
    /\ UNCHANGED inp

NextCompose == Compose \/ ApplyComposed \/ ApplyNextInSequence

SpecCompose == InitCompose /\ [][NextCompose]_vars

AllNonEmpty(C) == \A i \in 1..Len(C) : Len(C[i]) > 0

RECURSIVE ordered_product(_, _, _)
\* Kn[cn] * ... * K1[c1] for the first n channels, as it is written.
ordered_product(C, comb, n) ==
    IF n = 1 THEN C[1][comb[1] + 1]
    ELSE MatMul(C[n][comb[n] + 1], ordered_product(C, comb, n - 1))

\* The position (from 1) of the choice comb among all choices, the last
\* choice varying fastest.
RECURSIVE position(_, _, _)
position(C, comb, n) ==
    IF n = 0 THEN 1 ELSE (position(C, comb, n - 1) - 1) * Len(C[n]) + comb[n] + 1

Choices(C) == {comb \in [1..Len(C) -> 0..(MaxKraus + 1)] :
                  \A i \in 1..Len(C) : comb[i] < Len(C[i])}

AssocInputs ==
    UNION {{[K1 |-> K1, K2 |-> K2, K3 |-> K3, rho |-> RhoOp(d, s), d |-> d]
              : K1 \in KrausLists(d, d), K2 \in KrausLists(d, d),
                K3 \in KrausLists(d, d), s \in Seeds}
           : d \in Dims}

InitAssoc ==
    /\ inp \in AssocInputs
    /\ out = [inner23 |-> Pending, right |-> Pending, actright |-> Pending,
              inner12 |-> Pending, left |-> Pending, actleft |-> Pending]

\* compose_channels([K2, K3])
ComposeInner23 ==
    /\ out.inner23 = Pending
    /\ out' = [out EXCEPT !.inner23 = compose_channels(<<inp.K2, inp.K3>>)]
    /\ UNCHANGED inp

\* compose_channels([K1, compose_channels([K2, K3])])
ComposeOuter1 ==
    /\ out.inner23 # Pending /\ out.right = Pending
    /\ out' = [out EXCEPT !.right =
                  IF out.inner23.kind = "value"
                  THEN compose_channels(<<inp.K1, out.inner23.val>>)
                  ELSE out.inner23]
    /\ UNCHANGED inp

\* compose_channels([K1, K2])
ComposeInner12 ==
    /\ out.inner12 = Pending
    /\ out' = [out EXCEPT !.inner12 = compose_channels(<<inp.K1, inp.K2>>)]
    /\ UNCHANGED inp

\* compose_channels([compose_channels([K1, K2]), K3])
ComposeOuter3 ==
    /\ out.inner12 # Pending /\ out.left = Pending
    /\ out' = [out EXCEPT !.left =
                  IF out.inner12.kind = "value"
                  THEN compose_channels(<<out.inner12.val, inp.K3>>)
                  ELSE out.inner12]
    /\ UNCHANGED inp

\* apply_channel(compose_channels([K1, compose_channels([K2, K3])]), rho)
ApplyRightNested ==
    /\ out.right # Pending /\ out.actright = Pending
    /\ out' = [out EXCEPT !.actright =
                  IF out.right.kind = "value"
                  THEN apply_channel(out.right.val, inp.rho, None, None, FALSE)
                  ELSE out.right]
    /\ UNCHANGED inp

\* apply_channel(compose_channels([compose_channels([K1, K2]), K3]), rho)
ApplyLeftNested ==
    /\ out.left # Pending /\ out.actleft = Pending
    /\ out' = [out EXCEPT !.actleft =
                  IF out.left.kind = "value"
                  THEN apply_channel(out.left.val, inp.rho, None, None, FALSE)
                  ELSE out.left]
    /\ UNCHANGED inp

NextAssoc ==
    \/ ComposeInner23 \/ ComposeOuter1 \/ ApplyRightNested
    \/ ComposeInner12 \/ ComposeOuter3 \/ ApplyLeftNested

SpecAssoc == InitAssoc /\ [][NextAssoc]_vars

\* C3: composing K1 with (K2 then K3) and composing (K1 then K2) with K3
\* act in the same way on rho: the two applications have the same outcome.
C3_Associative ==
    (out.actright # Pending /\ out.actleft # Pending) => out.actright = out.actleft

\* Three two-operator channels on a qubit, composed both ways and applied:
\* both results are the same matrix.
C3_Witness ==
    /\ inp.d = 2 /\ Len(inp.K1) = 2 /\ Len(inp.K2) = 2 /\ Len(inp.K3) = 2
    /\ inp.K1 # inp.K2
    /\ out.actright.kind = "value" /\ out.actleft.kind = "value"
    /\ out.actright.val # ScalarZero
    /\ Len(out.right.val) = 8 /\ Len(out.left.val) = 8

(***************************************************************************)
(* SpecPower: n_channel_uses against tensor_channels of n copies.          *)
(***************************************************************************)
PowerInputs ==
    UNION {{[K |-> K, n |-> n, dA |-> dA, dB |-> dB]
              : K \in KrausLists(dB, dA), n \in 1..MaxN}
           : dA \in Dims, dB \in Dims}

InitPower ==
    /\ inp \in PowerInputs
    /\ out = [uses |-> Pending, copies |-> Pending]

\* n_channel_uses(K, n)
NChannelUses ==
    /\ out.uses = Pending
    /\ out' = [out EXCEPT !.uses = Value(n_channel_uses(inp.K, inp.n))]
    /\ UNCHANGED inp

\* tensor_channels([K] * n)
TensorCopies ==
    /\ out.copies = Pending
    /\ out' = [out EXCEPT !.copies = Value(tensor_channels([i \in 1..inp.n |-> inp.K]))]
    /\ UNCHANGED inp

NextPower == NChannelUses \/ TensorCopies

SpecPower == InitPower /\ [][NextPower]_vars

\* C4: n_channel_uses(K, n) returns |K|^n operators, each of shape
\* (dB^n x dA^n), and the list is tensor_channels of n copies of K, element
\* by element.
C4_TensorPower ==
    /\ out.uses # Pending =>
          /\ Len(out.uses.val) = Pow(Len(inp.K), inp.n)
          /\ \A t \in 1..Len(out.uses.val) :
                /\ Rows(out.uses.val[t]) = Pow(inp.dB, inp.n)
                /\ \A r \in 1..Rows(out.uses.val[t]) :
                      Len(out.uses.val[t][r]) = Pow(inp.dA, inp.n)
    /\ (out.uses # Pending /\ out.copies # Pending) => out.uses = out.copies

\* Two uses of a two-operator channel from a qubit to a one-dimensional
\* output: four operators of shape (1 x 4), and both lists are there.
C4_Witness ==
    /\ inp.n = 2 /\ Len(inp.K) = 2 /\ inp.dA = 2 /\ inp.dB = 1
    /\ out.uses # Pending /\ out.copies # Pending
    /\ Len(out.uses.val) = 4 /\ Len(out.uses.val[1][1]) = 4

(***************************************************************************)
(* SpecDiamond: diamond_norm.  The SDP is solved by cvxpy's backend, which *)
(* is outside the program: prob.solve ends in one of cvxpy's statuses and  *)
(* sets prob.value accordingly (the optimum; -inf for an infeasible and    *)
(* +inf for an unbounded maximisation; the last iterate for an inaccurate  *)
(* status), or raises SolverError when the solver itself fails.            *)
(***************************************************************************)
\* general_functions.syspermute(J, [2, 1], [dA, dB]): the two subsystems
\* swapped, entry ((b,a),(b',a')) taken from ((a,b),(a',b')).
syspermute_swap(J, dA, dB) ==
    Force([i \in 1..(dA * dB) |-> [j \in 1..(dA * dB) |->
        J[((i - 1) % dA) * dB + ((i - 1) \div dA) + 1]
         [((j - 1) % dA) * dB + ((j - 1) \div dA) + 1]]])

\* The statuses prob.solve can end in without raising.
SolverStatuses ==
    {"optimal", "optimal_inaccurate", "infeasible", "infeasible_inaccurate",
     "unbounded", "unbounded_inaccurate"}

\* The statuses that are no optimal solve.
FailureStatuses == SolverStatuses \ {"optimal"}

\* The optimal (or last-iterate) objective values the backend may report:
\* the diamond norm lies in [0, 2].
ObjectiveValues == 0..2

\* prob.value after prob.solve ended in status st.
ProblemValues(st) ==
    IF st \in {"infeasible", "infeasible_inaccurate"} THEN {<<"-inf">>}
    ELSE IF st \in {"unbounded", "unbounded_inaccurate"} THEN {<<"inf">>}
    ELSE {<<"finite", v>> : v \in ObjectiveValues}

DiamondInputs ==
    {[J |-> RhoOp(dA * dB, s), dA |-> dA, dB |-> dB, display |-> display]
       : dA \in Dims, dB \in Dims, s \in Seeds, display \in BOOLEAN}

InitDiamond ==
    /\ inp \in DiamondInputs
    /\ out = [pc |-> "permute", J |-> <<>>, status |-> "unsolved", value |-> <<>>,
              result |-> Pending]

\* Line 405: J = syspermute(J, [2, 1], [dA, dB]); lines 407-421 build the
\* problem from J.
DiamondPermute ==
    /\ out.pc = "permute"
    /\ out' = [out EXCEPT !.pc = "solve", !.J = syspermute_swap(inp.J, inp.dA, inp.dB)]
    /\ UNCHANGED inp

\* Line 423: prob.solve(verbose=display, eps=1e-7) ends in a status.
DiamondSolve ==
    /\ out.pc = "solve"
    /\ \E st \in SolverStatuses : \E v \in ProblemValues(st) :
          out' = [out EXCEPT !.pc = "return", !.status = st, !.value = v]
    /\ UNCHANGED inp

\* Line 423: the solver fails and cvxpy raises SolverError out of
\* diamond_norm.
DiamondSolverRaises ==
    /\ out.pc = "solve"
    /\ out' = [out EXCEPT !.pc = "done", !.status = "solver_error",
                          !.result = Raised("SolverError")]
    /\ UNCHANGED inp

\* Line 425: return prob.value, whatever the status.
DiamondReturn ==
    /\ out.pc = "return"
    /\ out' = [out EXCEPT !.pc = "done", !.result = Value(out.value)]
    /\ UNCHANGED inp

NextDiamond == DiamondPermute \/ DiamondSolve \/ DiamondSolverRaises \/ DiamondReturn

SpecDiamond == InitDiamond /\ [][NextDiamond]_vars

\* C7: diamond_norm returns no value when the solve ended infeasible,
\* unbounded or not converged: each such status reaches the caller as an
\* error, and a value is returned only after an optimal solve.
C7_SolverFailureIsError ==
    out.pc = "done" =>
        /\ out.status \in FailureStatuses => out.result.kind = "error"
        /\ out.result.kind = "value" => out.status = "optimal"

(***************************************************************************)
(* SpecRandom: random_CP_map and random_quantum_channel.                   *)
(*                                                                         *)
(* random_density_matrix draws a positive semidefinite matrix of trace 1.  *)
(* The draws of the model are states whose two marginals are diagonal with *)
(* entries that are squares of rationals (1; 9/25 and 16/25), so that      *)
(* scipy's sqrtm and numpy's inv of a marginal are exact here.             *)
(***************************************************************************)
\* The non-negative integer root of a square.
ISqrt(n) == CHOOSE r \in 0..n : r * r = n

\* The root of a non-negative rational that is a square.
QSqrt(x) == <<ISqrt(x[1]), 0, ISqrt(x[3])>>

\* 1/x for a real rational x # 0.
QInv(x) == Cx(x[3], 0, x[1])

\* scipy.linalg.sqrtm of a diagonal matrix with square entries.
sqrtm_diagonal(M) ==
    Force([i \in 1..Rows(M) |-> [j \in 1..Cols(M) |->
        IF i = j THEN QSqrt(M[i][j]) ELSE CZero]])

\* numpy.linalg.inv of an invertible diagonal matrix.
inv_diagonal(M) ==
    Force([i \in 1..Rows(M) |-> [j \in 1..Cols(M) |->
        IF i = j THEN QInv(M[i][j]) ELSE CZero]])

\* general_functions.partial_trace(C, [2], [dA, dB]): the trace over B.
partial_trace_B(C, dA, dB) ==
    Force([a \in 1..dA |-> [c \in 1..dA |->
        CSum(Force([b \in 1..dB |-> C[(a - 1) * dB + b][(c - 1) * dB + b]]))]])

\* general_functions.partial_trace(C, [1], [dA, dB]): the trace over A.
partial_trace_A(C, dA, dB) ==
    Force([b \in 1..dB |-> [c \in 1..dB |->
        CSum(Force([a \in 1..dA |-> C[(a - 1) * dB + b][(a - 1) * dB + c]]))]])

\* |v><v| for a column vector v.
Projector(v) == MatMul(v, dag(v))

\* The amplitudes 3/5 and 4/5 (seed 0) or 3/5 and 4i/5 (seed 1).
Amplitude(k, s) ==
    IF k = 1 THEN Cx(3, 0, 5) ELSE IF s = 0 THEN Cx(4, 0, 5) ELSE Cx(0, 4, 5)

\* states.random_density_matrix(dA * dB): the draws of the model.  On one
\* level the only state; on two levels the mixtures diag(9/25, 16/25) and
\* diag(16/25, 9/25); on two qubits the pure states (3|00> + 4|11>)/5 and
\* (3|01> + 4i|10>)/5; on other sizes diagonal states whose trace over B
\* has the entries 9/25 and 16/25 (1 for dA = 1).
random_density_matrix(dA, dB) ==
    IF dA * dB = 1 THEN {eye(1)}
    ELSE IF dA * dB = 2
    THEN {Force([i \in 1..2 |-> [j \in 1..2 |->
             IF i # j THEN CZero
             ELSE IF (i = 1) = (s = 0) THEN Cx(9, 0, 25) ELSE Cx(16, 0, 25)]]) : s \in Seeds}
    ELSE IF dA = 2 /\ dB = 2
    THEN {Projector(Force([r \in 1..4 |->
             <<IF s = 0
               THEN (IF r = 1 THEN Amplitude(1, s) ELSE IF r = 4 THEN Amplitude(2, s) ELSE CZero)
               ELSE (IF r = 2 THEN Amplitude(1, s) ELSE IF r = 3 THEN Amplitude(2, s) ELSE CZero)
             >>])) : s \in Seeds}
    ELSE {Force([i \in 1..(dA * dB) |-> [j \in 1..(dA * dB) |->
             IF i # j THEN CZero
             ELSE IF dA = 1 THEN Cx(1, 0, dB)
             ELSE IF (((i - 1) \div dB) % 2 = 0) = (s = 0) THEN Cx(9, 0, 25 * dB * ((dA + 1) \div 2))
             ELSE Cx(16, 0, 25 * dB * (dA \div 2))]]) : s \in Seeds}

\* Lines 454-456: C_AB normalised so that its trace over B is the identity.
normalise_TP(C_AB, dA, dB) ==
    MatMul(MatMul(tensor(inv_diagonal(sqrtm_diagonal(partial_trace_B(C_AB, dA, dB))), eye(dB)),
                  C_AB),
           tensor(inv_diagonal(sqrtm_diagonal(partial_trace_B(C_AB, dA, dB))), eye(dB)))

\* Lines 459-461: C_AB normalised so that its trace over A is the identity.
normalise_unital(C_AB, dA, dB) ==
    MatMul(MatMul(tensor(eye(dA), inv_diagonal(sqrtm_diagonal(partial_trace_A(C_AB, dA, dB)))),
                  C_AB),
           tensor(eye(dA), inv_diagonal(sqrtm_diagonal(partial_trace_A(C_AB, dA, dB)))))

ReturnFormats == {"choi", "kraus", "natural", "stinespring", "other"}

\* The message random_CP_map returns (line 466).
DimensionMessage == [str |-> "Input and output dimensions must match for a TP and unital CP map!"]

\* The object returned for return_as (lines 472-482): C_AB itself for
\* "choi" and, after a printed warning, for an unrecognised format; else
\* the result of the converter named by return_as applied to C_AB, held
\* here as the format together with the Choi matrix it represents.
Representation(return_as, C_AB) ==
    [repr |-> IF return_as \in {"kraus", "natural", "stinespring"} THEN return_as ELSE "choi",
     choi |-> C_AB]

RandomInputs ==
    {[fn |-> fn, dA |-> dA, dB |-> dB, TP |-> TP, unital |-> unital, return_as |-> r]
       : fn \in {"random_CP_map", "random_quantum_channel"},
         dA \in Dims, dB \in Dims, TP \in BOOLEAN, unital \in BOOLEAN, r \in ReturnFormats}

\* random_quantum_channel passes TP=True (line 491).
InitRandom ==
    /\ inp \in {i \in RandomInputs : i.fn = "random_quantum_channel" => i.TP}
    /\ out = [pc |-> "draw", C_AB |-> <<>>, printed |-> FALSE, result |-> Pending]

\* Line 448: C_AB = random_density_matrix(dA * dB)
DrawDensityMatrix ==
    /\ out.pc = "draw"
    /\ \E C \in random_density_matrix(inp.dA, inp.dB) :
          out' = [out EXCEPT !.pc = "normalise", !.C_AB = C]
    /\ UNCHANGED inp

\* Lines 450-451: neither TP nor unital.
KeepAsDrawn ==
    /\ out.pc = "normalise" /\ ~inp.TP /\ ~inp.unital
    /\ out' = [out EXCEPT !.pc = "return"]
    /\ UNCHANGED inp

\* Lines 453-456: TP and not unital.
NormaliseTP ==
    /\ out.pc = "normalise" /\ inp.TP /\ ~inp.unital
    /\ out' = [out EXCEPT !.pc = "return", !.C_AB = normalise_TP(out.C_AB, inp.dA, inp.dB)]
    /\ UNCHANGED inp

\* Lines 458-461: unital and not TP.
NormaliseUnital ==
    /\ out.pc = "normalise" /\ ~inp.TP /\ inp.unital
    /\ out' = [out EXCEPT !.pc = "return",
                          !.C_AB = normalise_unital(out.C_AB, inp.dA, inp.dB)]
    /\ UNCHANGED inp

\* Lines 463-466: TP and unital with dA # dB: the message is returned.
ReturnDimensionMessage ==
    /\ out.pc = "normalise" /\ inp.TP /\ inp.unital /\ inp.dA # inp.dB
    /\ out' = [out EXCEPT !.pc = "done", !.result = Value(DimensionMessage)]
    /\ UNCHANGED inp

\* Lines 467-468: TP and unital with dA = dB: "None  ##### TO DO", C_AB is
\* left as drawn.
SkipTPUnital ==
    /\ out.pc = "normalise" /\ inp.TP /\ inp.unital /\ inp.dA = inp.dB
    /\ out' = [out EXCEPT !.pc = "return"]
    /\ UNCHANGED inp

\* Lines 472-482: the return in the format return_as.
ReturnAs ==
    /\ out.pc = "return"
    /\ out' = [out EXCEPT !.pc = "done",
                          !.printed = (inp.return_as \notin {"choi", "kraus", "natural", "stinespring"}),
                          !.result = Value(Representation(inp.return_as, out.C_AB))]
    /\ UNCHANGED inp

NextRandom ==
    \/ DrawDensityMatrix \/ KeepAsDrawn \/ NormaliseTP \/ NormaliseUnital
    \/ ReturnDimensionMessage \/ SkipTPUnital \/ ReturnAs

SpecRandom == InitRandom /\ [][NextRandom]_vars

\* Whether the outcome r is a representation of a trace-preserving map:
\* the trace over the output system of its Choi matrix is the identity.
IsTracePreserving(r, dA, dB) ==
    /\ r.kind = "value"
    /\ "choi" \in DOMAIN r.val
    /\ partial_trace_B(r.val.choi, dA, dB) = eye(dA)

\* C9: random_quantum_channel returns a trace-preserving completely
\* positive map for unital False and True: whenever random_CP_map runs with
\* TP=True, what it returns represents a Choi matrix whose trace over the
\* output system is the identity on the input system.
C9_ChannelIsTracePreserving ==
    (out.pc = "done" /\ inp.TP) => IsTracePreserving(out.result, inp.dA, inp.dB)

\* C10: random_CP_map with TP=True, unital=True and dA # dB ends in an
\* UnsupportedConfigurationError, not in a returned value.
C10_MismatchIsError ==
    (out.pc = "done" /\ inp.TP /\ inp.unital /\ inp.dA # inp.dB) =>
        out.result = Raised("UnsupportedConfigurationError")

(***************************************************************************)
(* SpecChoi: choi_representation and choi_to_kraus.                        *)
(*                                                                         *)
(* scipy.linalg.eig is outside the program: it returns eigenvalues D in no *)
(* fixed order and a matrix U whose columns are unit eigenvectors, linearly*)
(* independent but, inside an eigenspace of dimension above one, not       *)
(* necessarily orthogonal.  Here eig is every such (D, U) with columns     *)
(* from UnitVectors; arithmetic is exact, so np.allclose is equality.      *)
(***************************************************************************)
\* states.max_ent(dA, normalized=False): |Phi+><Phi+| for the vector
\* |Phi+> = sum_i |i>|i> on A (x) A.
max_ent(dA) ==
    MatMul(np_sum(Force([i \in 1..dA |-> tensor(ket(dA, i - 1), ket(dA, i - 1))])),
           dag(np_sum(Force([i \in 1..dA |-> tensor(ket(dA, i - 1), ket(dA, i - 1))]))))

\* Lines 54-65.
choi_representation(K, dA) ==
    apply_channel(K, max_ent(dA), Some(<<2>>), Some(<<dA, dA>>), FALSE)

\* The candidates for a root of x with non-zero imaginary part.
RootCandidates(x) ==
    {Cx(a, b, d) : a \in 1..(Abs(x[1]) + Abs(x[2])),
                   b \in (0 - Abs(x[1]) - Abs(x[2]))..(Abs(x[1]) + Abs(x[2])),
                   d \in 1..(2 * x[3])}

\* np.sqrt of a complex number: the principal root; of a negative real
\* -r*r it is r*i, returned without a warning.
CSqrt(x) ==
    IF x[2] = 0
    THEN (IF x[1] >= 0 THEN QSqrt(x) ELSE <<0, ISqrt(0 - x[1]), ISqrt(x[3])>>)
    ELSE CHOOSE z \in RootCandidates(x) : CMul(z, z) = x

\* The column vector with x at position j and y at position k.
PlaneVector(n, j, k, x, y) ==
    Force([r \in 1..n |-> <<IF r = j THEN x ELSE IF r = k THEN y ELSE CZero>>])

\* Unit vectors of dimension n: the basis vectors and, in the plane of the
\* positions j and n+1-j, (3, 4)/5 and (4, -3)/5 for odd j, (3, 4i)/5 and
\* (4i, 3)/5 for even j.
UnitVectors(n) ==
    {ket(n, j) : j \in 0..(n - 1)}
    \cup {PlaneVector(n, j, n + 1 - j, Cx(3, 0, 5), Cx(4, 0, 5)) : j \in {i \in 1..(n \div 2) : i % 2 = 1}}
    \cup {PlaneVector(n, j, n + 1 - j, Cx(4, 0, 5), Cx(-3, 0, 5)) : j \in {i \in 1..(n \div 2) : i % 2 = 1}}
    \cup {PlaneVector(n, j, n + 1 - j, Cx(3, 0, 5), Cx(0, 4, 5)) : j \in {i \in 1..(n \div 2) : i % 2 = 0}}
    \cup {PlaneVector(n, j, n + 1 - j, Cx(0, 4, 5), Cx(3, 0, 5)) : j \in {i \in 1..(n \div 2) : i % 2 = 0}}

\* <u| M |v> for column vectors u and v.
Inner(u, M, v) == MatMul(MatMul(dag(u), M), v)[1][1]

\* u is a unit eigenvector of P (its eigenvalue is then <u|P|u>).
IsEigenvector(P, u) == MatMul(P, u) = MatScale(Inner(u, P, u), u)

\* The matrix whose columns are the column vectors in cols.
Columns(cols) ==
    Force([r \in 1..Rows(cols[1]) |-> [c \in 1..Len(cols) |-> cols[c][r][1]]])

\* M without its first row and its column j.
Minor(M, j) ==
    Force([r \in 1..(Rows(M) - 1) |-> [c \in 1..(Cols(M) - 1) |->
        M[r + 1][IF c < j THEN c ELSE c + 1]]])

\* The determinant, by expansion along the first row.
RECURSIVE Det(_)
Det(M) ==
    IF Rows(M) = 1 THEN M[1][1]
    ELSE CSum(Force([j \in 1..Cols(M) |->
            IF M[1][j] = CZero THEN CZero
            ELSE CMul(Cx(IF j % 2 = 1 THEN 1 ELSE -1, 0, 1),
                      CMul(M[1][j], Det(Minor(M, j))))]))

\* The (D, U) for a choice of columns.
eig_result(P, cols) ==
    [D |-> Force([i \in 1..Len(cols) |-> Inner(cols[i], P, cols[i])]), U |-> Columns(cols)]

\* The choices of linearly independent eigenvector columns among E.
eig_columns(n, E) ==
    {cols \in [1..n -> E] :
        (\A i, j \in 1..n : cols[i] = cols[j] => i = j) /\ Det(Columns(cols)) # CZero}

\* Line 90: D, U = eig(P)
eig(P) ==
    {eig_result(P, cols) :
        cols \in eig_columns(Rows(P), {u \in UnitVectors(Rows(P)) : IsEigenvector(P, u)})}

\* Column i of U as a column vector.
Column(U, i) == Force([r \in 1..Rows(U) |-> <<U[r][i]>>])

\* v less its components along the orthonormal vectors e.
gs_residual(e, v) ==
    IF Len(e) = 0 THEN v
    ELSE MatAdd(v, MatScale(Cx(-1, 0, 1),
            np_sum(Force([j \in 1..Len(e) |-> MatScale(Inner(e[j], eye(Rows(v)), v), e[j])]))))

\* w scaled to norm one.
gs_normalise(w) == MatScale(QInv(QSqrt(Inner(w, eye(Rows(w)), w))), w)

\* linalg.gram_schmidt(states, dim): the orthonormalised states, in order.
\* The orthonormal vectors e with v orthonormalised against them.
gs_step(e, v) == Force(Append(e, gs_normalise(gs_residual(e, v))))

RECURSIVE gram_schmidt_upto(_, _)
gram_schmidt_upto(states, k) ==
    IF k = 0 THEN <<>>
    ELSE gs_step(gram_schmidt_upto(states, k - 1), states[k])

gram_schmidt(states, dim) == gram_schmidt_upto(states, Len(states))

\* Lines 96-97: both unitarity checks.
is_unitary(U, d) == eye(d) = MatMul(U, dag(U)) /\ eye(d) = MatMul(dag(U), U)

\* Line 106: U = np.sum([tensor(dag(ket(U_cols, i)), C[i]) ...], 0)
rebuild_unitary(C, U_cols) ==
    np_sum(Force([i \in 1..U_cols |-> tensor(dag(ket(U_cols, i - 1)), C[i])]))

\* Lines 96-106: U as it is if unitary, else orthonormalised.
orthonormal_columns(U, d) ==
    IF is_unitary(U, d) THEN U
    ELSE rebuild_unitary(gram_schmidt(Force([i \in 1..Cols(U) |-> Column(U, i)]), d), Cols(U))

\* A Kraus operator with column i of U read in the other order:
\* reshape([dB, dA]) with no transpose.
kraus_from_column_reshape_only(root, U, i, dA, dB) ==
    Force([b \in 1..dB |-> [a \in 1..dA |-> CMul(root, U[(b - 1) * dA + a][i])]])

\* Lines 109-113: sqrt(D[i]) * Col.reshape([dA, dB]), transposed; root is
\* np.sqrt(D[i]).
kraus_from_column(root, U, i, dA, dB) ==
    Force([b \in 1..dB |-> [a \in 1..dA |-> CMul(root, U[(a - 1) * dB + b][i])]])

\* Lines 108-115: the Kraus operators from D and the orthonormal U.
kraus_from_columns(D, U, dA, dB) ==
    Force([i \in 1..Cols(U) |-> kraus_from_column(CSqrt(D[i]), U, i, dA, dB)])

\* Lines 82-115 after eig has returned r = (D, U).
choi_to_kraus(r, dA, dB) ==
    Value(kraus_from_columns(r.D, orthonormal_columns(r.U, dA * dB), dA, dB))

\* The dB x dA operator K with K[b][a] = v[a * dB + b] (indices from 0).
OperatorOf(v, dA, dB) ==
    Force([b \in 1..dB |-> [a \in 1..dA |-> v[(a - 1) * dB + b]]])

\* Entry p of operator number i of the family s on n = dA * dB entries.
\* Family 0: 3, 4, 12 (n = 1); (3, 4), (4, -3), (0, 12) (n = 2);
\* 3e1 + 4e4, 4e1 - 3e4, 12e2 (n = 4).  Family 1: 4i, 3, 12i (n = 1);
\* (5i, 0), (0, 5), (0, 12i) (n = 2); 3e2 + 4i e3, 4i e2 + 3e3, 5e1 (n = 4).
\* Operators after the third are zero.
FamilyEntry(n, s, i, p) ==
    IF i > 3 THEN CZero
    ELSE IF n = 1
    THEN <<<<Cx(3, 0, 1), Cx(4, 0, 1), Cx(12, 0, 1)>>,
           <<Cx(0, 4, 1), Cx(3, 0, 1), Cx(0, 12, 1)>>>>[s + 1][i]
    ELSE IF n = 2
    THEN <<<< <<Cx(3, 0, 1), Cx(4, 0, 1)>>, <<Cx(4, 0, 1), Cx(-3, 0, 1)>>,
              <<CZero, Cx(12, 0, 1)>> >>,
           << <<Cx(0, 5, 1), CZero>>, <<CZero, Cx(5, 0, 1)>>,
              <<CZero, Cx(0, 12, 1)>> >>>>[s + 1][i][p]
    ELSE <<<< <<Cx(3, 0, 1), CZero, CZero, Cx(4, 0, 1)>>,
              <<Cx(4, 0, 1), CZero, CZero, Cx(-3, 0, 1)>>,
              <<CZero, Cx(12, 0, 1), CZero, CZero>> >>,
           << <<CZero, Cx(3, 0, 1), Cx(0, 4, 1), CZero>>,
              <<CZero, Cx(0, 4, 1), Cx(3, 0, 1), CZero>>,
              <<Cx(5, 0, 1), CZero, CZero, CZero>> >>>>[s + 1][i][p]

\* The valid Kraus lists: the first m >= 1 operators of a family.  Their
\* Choi matrices have rational unit eigenvectors in UnitVectors and
\* eigenvalues that are squares, with eigenspaces of dimension up to 3.
ValidKrausLists(dA, dB) ==
    {Force([i \in 1..m |->
        OperatorOf([p \in 1..(dA * dB) |-> FamilyEntry(dA * dB, s, i, p)], dA, dB)])
       : m \in 1..MaxKraus, s \in Seeds}

\* Hermitian and non-Hermitian matrices that are no Choi matrix of a CP map:
\* for s = 0 the diagonal 1, 4, ..., -(n*n); for s = 1 the matrix [2i]
\* (n = 1) or [[-7, 24], [24, 7]] (eigenvalues -25 and 25) in the corners
\* with 4, 9, ... between.
NonCPMatrix(n, s) ==
    Force([r \in 1..n |-> [c \in 1..n |->
        IF s = 0 THEN (IF r # c THEN CZero ELSE IF r = n THEN Cx(0 - n * n, 0, 1) ELSE Cx(r * r, 0, 1))
        ELSE IF n = 1 THEN Cx(0, 2, 1)
        ELSE IF r = 1 /\ c = 1 THEN Cx(-7, 0, 1)
        ELSE IF r = n /\ c = n THEN Cx(7, 0, 1)
        ELSE IF {r, c} = {1, n} THEN Cx(24, 0, 1)
        ELSE IF r = c THEN Cx(r * r, 0, 1)
        ELSE CZero]])

ChoiInputs ==
    UNION {{[from |-> "kraus", K |-> K, P |-> <<>>, dA |-> dA, dB |-> dB]
              : K \in ValidKrausLists(dA, dB)}
           \cup {[from |-> "choi", K |-> <<>>, P |-> NonCPMatrix(dA * dB, s), dA |-> dA, dB |-> dB]
              : s \in Seeds}
          : dA \in Dims, dB \in Dims}

InitChoi ==
    /\ inp \in ChoiInputs
    /\ out = [pc |-> IF inp.from = "kraus" THEN "choi" ELSE "eig", P |-> inp.P,
              D |-> <<>>, U |-> <<>>, K |-> Pending, warnings |-> {}, P2 |-> Pending]

\* choi_representation(K, dA) of the given Kraus list.
ChoiRepresentation ==
    /\ out.pc = "choi"
    /\ out' = [out EXCEPT !.pc = "eig", !.P = choi_representation(inp.K, inp.dA).val]
    /\ UNCHANGED inp

\* choi_to_kraus(P, dA, dB), for one of the results eig can return.
ChoiToKraus ==
    /\ out.pc = "eig"
    /\ \E r \in eig(out.P) :
          out' = [out EXCEPT !.pc = "kraus", !.D = r.D, !.U = r.U,
                             !.K = choi_to_kraus(r, inp.dA, inp.dB)]
    /\ UNCHANGED inp

\* choi_representation(K', dA) of the Kraus list choi_to_kraus returned.
ChoiOfReturned ==
    /\ out.pc = "kraus"
    /\ out' = [out EXCEPT !.pc = "done", !.P2 = choi_representation(out.K.val, inp.dA)]
    /\ UNCHANGED inp

NextChoi == ChoiRepresentation \/ ChoiToKraus \/ ChoiOfReturned

SpecChoi == InitChoi /\ [][NextChoi]_vars

\* C5: for a valid Kraus list K with dimensions (dA, dB), the Kraus list
\* choi_to_kraus returns for choi_representation(K, dA) has the Choi matrix
\* choi_representation(K, dA), whatever eigenvectors eig returned.
C5_RoundTrip ==
    (out.pc = "done" /\ inp.from = "kraus") =>
        out.P2 = choi_representation(inp.K, inp.dA)

\* A round trip on two qubits in which eig returned eigenvectors that are
\* not orthogonal and the returned Kraus list is not the given one.
C5_Witness ==
    /\ out.pc = "done" /\ inp.from = "kraus"
    /\ inp.dA = 2 /\ inp.dB = 2 /\ Len(inp.K) = 2
    /\ ~is_unitary(out.U, 4)
    /\ out.K.val # inp.K
    /\ out.P2 = Value(out.P)

\* An eigenvalue that is negative or not real.
NotNonNegative(x) == x[1] < 0 \/ x[2] # 0

\* C8: when the matrix given to choi_to_kraus has a negative or non-real
\* eigenvalue, choi_to_kraus ends in an error or with a warning, not with
\* a plain list of Kraus operators.
C8_NonCPIsSignalled ==
    (out.pc \in {"kraus", "done"} /\ \E i \in 1..Len(out.D) : NotNonNegative(out.D[i])) =>
        (out.K.kind = "error" \/ out.warnings # {})

(***************************************************************************)
(* SpecPOVM: random_POVM.                                                  *)
(***************************************************************************)
\* The largest num_elem.
MaxElems == 3

\* Lines 513-515: (eye(d) (x) <i|) @ C @ (eye(d) (x) |i>), the block of C
\* at the output state i.
choi_block(C, d, num_elem, i) ==
    MatMul(MatMul(tensor(eye(d), dag(ket(num_elem, i))), C), tensor(eye(d), ket(num_elem, i)))

\* Line 523: inv(sqrtm(R)) @ Si @ inv(sqrtm(R)) for a diagonal R: the entry
\* (j, k) of Si divided by sqrt(R[j][j] * R[k][k]).
pretty_good_element(R, Si) ==
    Force([j \in 1..Rows(Si) |-> [k \in 1..Cols(Si) |->
        IF Si[j][k] = CZero THEN CZero
        ELSE CMul(Si[j][k], QInv(QSqrt(CMul(R[j][j], R[k][k]))))]])

POVMInputs ==
    {[d |-> d, num_elem |-> n, via_choi |-> v]
       : d \in Dims, n \in 1..MaxElems, v \in BOOLEAN}

\* Line 507: M = []
InitPOVM ==
    /\ inp \in POVMInputs
    /\ out = [pc |-> "start", C |-> <<>>, S |-> <<>>, R |-> <<>>, i |-> 0,
              Mi |-> <<>>, M |-> <<>>, result |-> Pending]

\* Line 510: C = random_quantum_channel(d, num_elem), which is the Choi
\* matrix random_CP_map(d, num_elem, TP=True, unital=False) returns.
POVMDrawChannel ==
    /\ out.pc = "start" /\ inp.via_choi
    /\ \E C_AB \in random_density_matrix(inp.d, inp.num_elem) :
          out' = [out EXCEPT !.pc = "loop",
                             !.C = normalise_TP(C_AB, inp.d, inp.num_elem)]
    /\ UNCHANGED inp

\* Lines 511-517: one pass of the loop with via_choi: Mi is appended to M.
POVMAppendBlock ==
    /\ out.pc = "loop" /\ inp.via_choi /\ out.i < inp.num_elem
    /\ out' = [out EXCEPT !.i = out.i + 1,
                          !.Mi = choi_block(out.C, inp.d, inp.num_elem, out.i),
                          !.M = Append(out.M, choi_block(out.C, inp.d, inp.num_elem, out.i))]
    /\ UNCHANGED inp

\* Lines 520-521: S = [random_density_matrix(d) ...]; R = np.sum(S, 0)
POVMDrawStates ==
    /\ out.pc = "start" /\ ~inp.via_choi
    /\ \E S \in [1..inp.num_elem -> random_density_matrix(inp.d, 1)] :
          out' = [out EXCEPT !.pc = "loop", !.S = S, !.R = np_sum(S)]
    /\ UNCHANGED inp

\* Lines 522-524: one pass of the loop without via_choi: Mi is computed
\* and M is left as it is.
POVMComputeElement ==
    /\ out.pc = "loop" /\ ~inp.via_choi /\ out.i < inp.num_elem
    /\ out' = [out EXCEPT !.i = out.i + 1,
                          !.Mi = pretty_good_element(out.R, out.S[out.i + 1])]
    /\ UNCHANGED inp

\* Line 526: return M
POVMReturn ==
    /\ out.pc = "loop" /\ out.i = inp.num_elem
    /\ out' = [out EXCEPT !.pc = "done", !.result = Value(out.M)]
    /\ UNCHANGED inp

NextPOVM ==
    \/ POVMDrawChannel \/ POVMAppendBlock \/ POVMDrawStates
    \/ POVMComputeElement \/ POVMReturn

SpecPOVM == InitPOVM /\ [][NextPOVM]_vars

\* C11: random_POVM(d, num_elem, via_choi) returns a list of exactly
\* num_elem operators, each d x d, for via_choi True and False.
C11_ReturnsNumElem ==
    out.pc = "done" =>
        /\ out.result.kind = "value"
        /\ Len(out.result.val) = inp.num_elem
        /\ \A k \in 1..Len(out.result.val) :
              Rows(out.result.val[k]) = inp.d /\ Cols(out.result.val[k]) = inp.d

(***************************************************************************)
(* SpecNatural: choi_to_natural and natural_representation.                *)
(***************************************************************************)
\* np.conjugate(k)
conjugate(A) == Force([i \in 1..Rows(A) |-> [j \in 1..Cols(A) |-> CConj(A[i][j])]])

\* Lines 68-79: np.sum([tensor(k, np.conjugate(k)) for k in K], 0)
natural_representation(K) ==
    Value(np_sum(Force([i \in 1..Len(K) |-> tensor(K[i], conjugate(K[i]))])))

\* The entries of the matrix M in row-major order.
ravel(M) == Force([k \in 1..(Rows(M) * Cols(M)) |->
                M[((k - 1) \div Cols(M)) + 1][((k - 1) % Cols(M)) + 1]])

\* np.reshape(C_AB, [n1, n2, n3, n4]) from the row-major entries flat.
reshape_4(flat, n1, n2, n3, n4) ==
    Force([a \in 1..n1 |-> [b \in 1..n2 |-> [c \in 1..n3 |-> [e \in 1..n4 |->
        flat[(((a - 1) * n2 + (b - 1)) * n3 + (c - 1)) * n4 + e]]]]])

\* The axes left in place.
transpose_none(T) == T

\* .transpose((0, 2, 1, 3)): the two middle axes exchanged.
transpose_0213(T) ==
    Force([a \in 1..Len(T) |-> [c \in 1..Len(T[1][1]) |-> [b \in 1..Len(T[1]) |->
        [e \in 1..Len(T[1][1][1]) |-> T[a][b][c][e]]]]])

\* The entries of the rank-4 array T in row-major order.
ravel_4(T) ==
    Force([k \in 1..(Len(T) * Len(T[1]) * Len(T[1][1]) * Len(T[1][1][1])) |->
        T[((k - 1) \div (Len(T[1]) * Len(T[1][1]) * Len(T[1][1][1]))) + 1]
         [(((k - 1) \div (Len(T[1][1]) * Len(T[1][1][1]))) % Len(T[1])) + 1]
         [(((k - 1) \div Len(T[1][1][1])) % Len(T[1][1])) + 1]
         [((k - 1) % Len(T[1][1][1])) + 1]])

\* .reshape([rows, cols]) from the row-major entries flat.
reshape_2(flat, rows, cols) ==
    Force([r \in 1..rows |-> [c \in 1..cols |-> flat[(r - 1) * cols + c]]])

\* The number of entries of np.array(C_AB): 1 for the scalar 0.0.
array_size(C_AB) == IF C_AB = ScalarZero THEN 1 ELSE Rows(C_AB) * Cols(C_AB)

\* Lines 118-136.  np.reshape raises ValueError when C_AB does not have
\* dA*dB*dA*dB entries.
choi_to_natural(C_AB, dA, dB) ==
    IF array_size(C_AB) # dA * dB * dA * dB THEN Raised("ValueError")
    ELSE Value(transpose(reshape_2(ravel_4(transpose_0213(
            reshape_4(IF C_AB = ScalarZero THEN <<CZero>> ELSE ravel(C_AB), dA, dB, dA, dB))),
            dA * dA, dB * dB)))

NaturalInputs ==
    UNION {{[K |-> K, dA |-> dA, dB |-> dB] : K \in KrausLists(dB, dA)}
             : dA \in Dims, dB \in Dims}

InitNatural ==
    /\ inp \in NaturalInputs
    /\ out = [choi |-> Pending, via_choi |-> Pending, direct |-> Pending]

\* choi_representation(K, dA)
NaturalChoi ==
    /\ out.choi = Pending
    /\ out' = [out EXCEPT !.choi = choi_representation(inp.K, inp.dA)]
    /\ UNCHANGED inp

\* choi_to_natural(C_AB, dA, dB) of the Choi matrix computed.
ChoiToNatural ==
    /\ out.choi # Pending /\ out.via_choi = Pending
    /\ out' = [out EXCEPT !.via_choi = choi_to_natural(out.choi.val, inp.dA, inp.dB)]
    /\ UNCHANGED inp

\* natural_representation(K)
NaturalRepresentation ==
    /\ out.direct = Pending
    /\ out' = [out EXCEPT !.direct = natural_representation(inp.K)]
    /\ UNCHANGED inp

NextNatural == NaturalChoi \/ ChoiToNatural \/ NaturalRepresentation

SpecNatural == InitNatural /\ [][NextNatural]_vars

\* The outcome r is a (dB*dB x dA*dA) matrix whose entry at row (b, b2),
\* column (a, a2) is sum_i K_i[b][a] * conj(K_i[b2][a2]).
IsNaturalOf(r, K, dA, dB) ==
    /\ r.kind = "value"
    /\ r.val # ScalarZero
    /\ Rows(r.val) = dB * dB /\ Cols(r.val) = dA * dA
    /\ \A b, b2 \in 1..dB : \A a, a2 \in 1..dA :
          r.val[(b - 1) * dB + b2][(a - 1) * dA + a2] =
              CSum([i \in 1..Len(K) |-> CMul(K[i][b][a], CConj(K[i][b2][a2]))])

isometry_V(K) ==
    np_sum(Force([i \in 1..Len(K) |-> tensor(K[i], ket(Len(K), i - 1))]))

\* Line 167: states = [V @ ket(dA, i) for i in range(dA)]
isometry_states(V, dA) == Force([i \in 1..dA |-> MatMul(V, ket(dA, i - 1))])

\* count left as it is.
next_count_same(count) == count

\* Line 177: count += 1
next_count(count) == count + 1

\* Line 176: U + tensor(states_new[count], dag(ket(dA, i)), dag(ket(dimE, j)))
isometry_fill(U, states_new, count, dA, dimE, i, j) ==
    MatAdd(U, tensor(tensor(states_new[count + 1], dag(ket(dA, i))), dag(ket(dimE, j))))

\* states.random_state_vector(n): the basis vectors, (3, 4)/5 and
\* (4, -3)/5 on the first and last position.
RandomStateVectors(n) ==
    {ket(n, j) : j \in 0..(n - 1)}
    \cup (IF n < 2 THEN {}
          ELSE {PlaneVector(n, 1, n, Cx(3, 0, 5), Cx(4, 0, 5)),
                PlaneVector(n, 1, n, Cx(4, 0, 5), Cx(-3, 0, 5))})

\* v has a component outside the span of the orthonormal vectors e.
IsOutside(e, v) == gs_residual(e, v) # MatScale(CZero, v)

\* The draws that are linearly independent of the orthonormal vectors e.
independent_draws(e, n) == {v \in RandomStateVectors(n) : IsOutside(e, v)}

\* Column a (from 0) of the isometry of family s with d inputs and m
\* Kraus operators.  Family 0: (3, 4)/5 or (3, 4i)/5 in the plane of the
\* positions a+1 and d*m-a (for m = 1: the columns of [[3, 4], [4, -3]]/5,
\* or [1]).  Family 1: the basis vector at position a*m + 1.
IsometryColumn(d, m, s, a) ==
    IF s = 1 \/ d * m = 1 THEN ket(d * m, a * m)
    ELSE IF m = 1
    THEN (IF a = 0 THEN PlaneVector(2, 1, 2, Cx(3, 0, 5), Cx(4, 0, 5))
          ELSE PlaneVector(2, 1, 2, Cx(4, 0, 5), Cx(-3, 0, 5)))
    ELSE PlaneVector(d * m, a + 1, d * m - a, Cx(3, 0, 5),
                     IF a % 2 = 0 THEN Cx(4, 0, 5) ELSE Cx(0, 4, 5))

\* The m Kraus operators (d x d) of the isometry of family s:
\* K_i[b][a] is the entry of column a at position b*m + i (from 0).
IsometryKraus(d, m, s) ==
    Force([i \in 1..m |-> [b \in 1..d |-> [a \in 1..d |->
        IsometryColumn(d, m, s, a - 1)[(b - 1) * m + i][1]]]])

IsometryInputs ==
    {[K |-> IsometryKraus(d, m, s), dA |-> d, dB |-> d]
       : d \in Dims, m \in 1..MaxKraus, s \in Seeds}
    \cup UNION {{[K |-> K, dA |-> dd[1], dB |-> dd[2]]
                    : K \in {L \in KrausLists(dd[2], dd[1]) : Len(L) > 0}}
                  : dd \in {e \in Dims \X Dims : e[1] # e[2]}}

InitIsometry ==
    /\ inp \in IsometryInputs
    /\ out = [pc |-> "start", V |-> <<>>, U |-> <<>>, states |-> <<>>,
              states_new |-> <<>>, count |-> 0, i |-> 0, j |-> 1, reads |-> <<>>,
              result |-> Pending]

\* Lines 159-167: dimE, V and, for dA = dB, U and the first dA states.
IsoBuildV ==
    /\ out.pc = "start"
    /\ out' = IF inp.dA = inp.dB
              THEN [out EXCEPT !.pc = "draw", !.V = isometry_V(inp.K),
                               !.U = tensor(isometry_V(inp.K), dag(ket(Len(inp.K), 0))),
                               !.states = isometry_states(isometry_V(inp.K), inp.dA)]
              ELSE [out EXCEPT !.pc = "return", !.V = isometry_V(inp.K)]
    /\ UNCHANGED inp

\* Lines 168-169: states.append(random_state_vector(dA * dimE))
IsoAppendRandom ==
    /\ out.pc = "draw" /\ Len(out.states) < inp.dA * Len(inp.K)
    /\ \E v \in independent_draws(gram_schmidt(out.states, inp.dA * Len(inp.K)),
                                   inp.dA * Len(inp.K)) :
          out' = [out EXCEPT !.states = Append(out.states, v)]
    /\ UNCHANGED inp

\* Lines 171-173: states_new = gram_schmidt(states, dA * dimE); count = dA
IsoGramSchmidt ==
    /\ out.pc = "draw" /\ Len(out.states) = inp.dA * Len(inp.K)
    /\ out' = [out EXCEPT !.pc = "fill",
                          !.states_new = gram_schmidt(out.states, inp.dA * Len(inp.K)),
                          !.count = inp.dA, !.i = 0, !.j = 1]
    /\ UNCHANGED inp

\* Lines 174-177: one pass of the inner loop; states_new[count] raises
\* IndexError when count is past the end.
IsoFill ==
    /\ out.pc = "fill" /\ out.i < inp.dA /\ out.j < Len(inp.K)
    /\ out' = IF out.count >= Len(out.states_new)
              THEN [out EXCEPT !.pc = "done", !.result = Raised("IndexError")]
              ELSE [out EXCEPT !.U = isometry_fill(out.U, out.states_new, out.count,
                                                   inp.dA, Len(inp.K), out.i, out.j),
                               !.reads = Append(out.reads, out.count),
                               !.count = next_count(out.count),
                               !.i = IF out.j + 1 < Len(inp.K) THEN out.i ELSE out.i + 1,
                               !.j = IF out.j + 1 < Len(inp.K) THEN out.j + 1 ELSE 1]
    /\ UNCHANGED inp

\* Line 179: return V, np.array(U)
IsoReturn ==
    /\ out.pc = "fill" /\ (out.i = inp.dA \/ Len(inp.K) = 1)
    /\ out' = [out EXCEPT !.pc = "done", !.result = Value(<<out.V, out.U>>)]
    /\ UNCHANGED inp

\* Lines 180-181: return V
IsoReturnV ==
    /\ out.pc = "return"
    /\ out' = [out EXCEPT !.pc = "done", !.result = Value(out.V)]
    /\ UNCHANGED inp

NextIsometry ==
    \/ IsoBuildV \/ IsoAppendRandom \/ IsoGramSchmidt \/ IsoFill \/ IsoReturn \/ IsoReturnV

SpecIsometry == InitIsometry /\ [][NextIsometry]_vars

\* C13: for dA = dB and dimE = len(K), generate_channel_isometry returns
\* (V, U) with U of shape (dA*dimE x dA*dimE); column (a, 0) of U is V|a>,
\* column (a, j) for j >= 1 is the Gram-Schmidt vector at position
\* dA + a*(dimE-1) + (j-1), and the positions read are dA, ..., dA*dimE-1,
\* each once and none past the end.
C13_ColumnsAssignedOnce ==
    (out.pc = "done" /\ inp.dA = inp.dB) =>
        /\ out.result.kind = "value"
        /\ out.result.val[1] = isometry_V(inp.K)
        /\ Rows(out.result.val[2]) = inp.dA * Len(inp.K)
        /\ Cols(out.result.val[2]) = inp.dA * Len(inp.K)
        /\ \A a \in 0..(inp.dA - 1) :
              /\ Column(out.result.val[2], a * Len(inp.K) + 1)
                    = MatMul(isometry_V(inp.K), ket(inp.dA, a))
              /\ \A j \in 1..(Len(inp.K) - 1) :
                    Column(out.result.val[2], a * Len(inp.K) + j + 1)
                       = out.states_new[inp.dA + a * (Len(inp.K) - 1) + (j - 1) + 1]
        /\ out.reads = [k \in 1..(inp.dA * Len(inp.K) - inp.dA) |-> inp.dA + k - 1]
        /\ Len(out.states_new) = inp.dA * Len(inp.K)

\* A unitary extension on two levels with two Kraus operators in which
\* Gram-Schmidt changed a drawn vector.
C13_Witness ==
    /\ out.pc = "done" /\ inp.dA = 2 /\ inp.dB = 2 /\ Len(inp.K) = 2
    /\ out.result.kind = "value"
    /\ out.reads = <<2, 3>>
    /\ out.states_new # out.states
    /\ is_unitary(out.result.val[2], 4)

====
